---- MODULE Spec2Model ----
(***************************************************************************)
(* A model of real_estate_manager.py: the in-memory store of properties    *)
(* and clients (RealEstateManagementSystem), its add / update operations,  *)
(* the criteria search, the price-ranged interactive search and the        *)
(* buyer-to-property scoring match.                                        *)
(*                                                                         *)
(* Python values are modelled with their run-time type attached, because   *)
(* the code branches on it (isinstance, Enum unwrapping):                  *)
(*   [t |-> "str",  v |-> <<"N","e","w">>]   a str, as its characters      *)
(*   [t |-> "num",  v |-> 750000]             an int or float              *)
(*   [t |-> "PropertyType", v |-> "RESIDENTIAL"]   an Enum member          *)
(*   [t |-> "list" / "tuple" / "NoneType", ...]                            *)
(* Amounts of money are whole currency units.  Field and preference names  *)
(* are Python identifiers and are written as TLA+ strings; a dict is the   *)
(* sequence of its (key, value) items in insertion order.                  *)
(***************************************************************************)
EXTENDS Integers, Sequences, FiniteSets, TLC

VARIABLES
    properties,   \* self.properties: dict property_id -> Property
    clients,      \* self.clients: dict client_id -> Client
    op,           \* the operation that ran last
    arg,          \* its argument as the caller passed it
    ret,          \* what it returned (or the exception it raised)
    disk          \* data/properties.json and data/clients.json

vars == <<properties, clients, op, arg, ret, disk>>

----------------------------------------------------------------------------
(* Python values *)

S(chars) == [t |-> "str", v |-> chars]
N(n) == [t |-> "num", v |-> n]
L(items) == [t |-> "list", v |-> items]
T(items) == [t |-> "tuple", v |-> items]
D(items) == [t |-> "dict", v |-> items]
None == [t |-> "NoneType", v |-> "None"]
\* float('inf')
Inf == [t |-> "inf", v |-> 0]

\* a == b for the values the model uses (values of different types differ)
PyEq(a, b) == a.t = b.t /\ a.v = b.v

isinstance(x, type) == x.t = type

UpperCase == <<"A","B","C","D","E","F","G","H","I","J","K","L","M",
               "N","O","P","Q","R","S","T","U","V","W","X","Y","Z">>
LowerCase == <<"a","b","c","d","e","f","g","h","i","j","k","l","m",
               "n","o","p","q","r","s","t","u","v","w","x","y","z">>

\* str.lower() on one character, and on a string
LowerChar(c) ==
    IF \E i \in 1..Len(UpperCase) : UpperCase[i] = c
    THEN LowerCase[CHOOSE i \in 1..Len(UpperCase) : UpperCase[i] = c]
    ELSE c

lower(chars) == [i \in 1..Len(chars) |-> LowerChar(chars[i])]

\* a comparison that leaves the bound itself out
NumLe_strict(a, b) ==
    IF b.t = "inf" THEN TRUE
    ELSE IF a.t = "inf" THEN FALSE
    ELSE a.v < b.v

\* a <= b for two numbers, either of which may be float('inf')
NumLe(a, b) ==
    IF b.t = "inf" THEN TRUE
    ELSE IF a.t = "inf" THEN FALSE
    ELSE a.v <= b.v

\* a comparison of whole strings
StrIn_exact(needle, hay) == needle = hay

\* needle in hay, for two strings
StrIn(needle, hay) ==
    \E i \in 0..(Len(hay) - Len(needle)) :
        SubSeq(hay, i + 1, i + Len(needle)) = needle

----------------------------------------------------------------------------
(* The enumerations *)

PropertyTypeValue ==
    [RESIDENTIAL |-> <<"R","e","s","i","d","e","n","t","i","a","l">>,
     COMMERCIAL  |-> <<"C","o","m","m","e","r","c","i","a","l">>,
     LAND        |-> <<"L","a","n","d">>,
     INDUSTRIAL  |-> <<"I","n","d","u","s","t","r","i","a","l">>]

PropertyStatusValue ==
    [FOR_SALE |-> <<"F","o","r"," ","S","a","l","e">>,
     FOR_RENT |-> <<"F","o","r"," ","R","e","n","t">>,
     SOLD     |-> <<"S","o","l","d">>,
     RENTED   |-> <<"R","e","n","t","e","d">>,
     PENDING  |-> <<"P","e","n","d","i","n","g">>]

ClientTypeValue ==
    [BUYER    |-> <<"B","u","y","e","r">>,
     SELLER   |-> <<"S","e","l","l","e","r">>,
     TENANT   |-> <<"T","e","n","a","n","t">>,
     LANDLORD |-> <<"L","a","n","d","l","o","r","d">>]

EnumTable(cls) ==
    CASE cls = "PropertyType" -> PropertyTypeValue
      [] cls = "PropertyStatus" -> PropertyStatusValue
      [] cls = "ClientType" -> ClientTypeValue

Member(cls, name) == [t |-> cls, v |-> name]

Members(cls) == {Member(cls, name) : name \in DOMAIN EnumTable(cls)}

\* member.value
EnumValue(member) == S(EnumTable(member.t)[member.v])

ValueError == [raised |-> "ValueError"]

\* cls(x): a member is returned as it is, a value is looked up among the
\* members' values, anything else raises ValueError
EnumCall(cls, x) ==
    IF x \in Members(cls) THEN x
    ELSE IF \E m \in Members(cls) : PyEq(EnumValue(m), x)
         THEN CHOOSE m \in Members(cls) : PyEq(EnumValue(m), x)
         ELSE ValueError

PropertyType(x) == EnumCall("PropertyType", x)
PropertyStatus(x) == EnumCall("PropertyStatus", x)
ClientType(x) == EnumCall("ClientType", x)

----------------------------------------------------------------------------
(* dicts, as sequences of items *)

Keys(d) == {d[i].key : i \in 1..Len(d)}

Values(d) == [i \in 1..Len(d) |-> d[i].val]

Get(d, k) == d[CHOOSE i \in 1..Len(d) : d[i].key = k].val

\* d[k] = v: an existing key keeps its place and gets the new value
SetItem(d, k, v) ==
    IF k \in Keys(d)
    THEN [i \in 1..Len(d) |-> IF d[i].key = k THEN [key |-> k, val |-> v] ELSE d[i]]
    ELSE Append(d, [key |-> k, val |-> v])

\* a record with one more (or one replaced) field: data[name] = value
With(data, name, value) ==
    [f \in DOMAIN data \cup {name} |-> IF f = name THEN value ELSE data[f]]

----------------------------------------------------------------------------
(* Identifiers: f"PROP{n:04d}" *)

DigitChar == <<"0","1","2","3","4","5","6","7","8","9">>

RECURSIVE Digits(_)
Digits(n) == IF n < 10 THEN <<DigitChar[n + 1]>>
             ELSE Append(Digits(n \div 10), DigitChar[(n % 10) + 1])

RECURSIVE ZeroPad(_, _)
ZeroPad(chars, width) ==
    IF Len(chars) >= width THEN chars ELSE ZeroPad(<<"0">> \o chars, width)

IdWidth == 4

PropertyId(n) == S(<<"P","R","O","P">> \o ZeroPad(Digits(n), IdWidth))

ClientId(n) == S(<<"C","L","I">> \o ZeroPad(Digits(n), IdWidth))

----------------------------------------------------------------------------
(* The dataclasses *)

PropertyFields ==
    {"property_id", "address", "city", "state", "zip_code", "property_type",
     "status", "price", "bedrooms", "bathrooms", "square_feet", "year_built",
     "description", "listing_date", "features", "agent_id"}

ClientFields ==
    {"client_id", "first_name", "last_name", "email", "phone", "client_type",
     "budget", "preferences", "interested_properties", "notes"}

TypeError == [raised |-> "TypeError"]

\* a constructor that takes zip_code and state in each other's place
Property_swapped(data) ==
    IF /\ PropertyFields \ {"agent_id"} \subseteq DOMAIN data
       /\ DOMAIN data \subseteq PropertyFields
    THEN [f \in PropertyFields |->
             IF f = "state" THEN data.zip_code
             ELSE IF f = "zip_code" THEN data.state
             ELSE IF f \in DOMAIN data THEN data[f] ELSE None]
    ELSE TypeError

\* Property(**data): every field but agent_id is required, agent_id
\* defaults to None, an unknown keyword is refused
Property(data) ==
    IF /\ PropertyFields \ {"agent_id"} \subseteq DOMAIN data
       /\ DOMAIN data \subseteq PropertyFields
    THEN [f \in PropertyFields |->
             IF f \in DOMAIN data THEN data[f] ELSE None]
    ELSE TypeError

\* Client(**data): every field is required
Client(data) ==
    IF DOMAIN data = ClientFields THEN data ELSE TypeError

Raised(x) == "raised" \in DOMAIN x

----------------------------------------------------------------------------
(* Strings and amounts the inputs are built from *)

NewYork == <<"N","e","w"," ","Y","o","r","k">>
Newark == <<"N","e","w","a","r","k">>
LosAngeles == <<"L","o","s"," ","A","n","g","e","l","e","s">>
UpperNewYork == <<"N","E","W"," ","Y","O","R","K">>

Residential == PropertyTypeValue.RESIDENTIAL
Commercial == PropertyTypeValue.COMMERCIAL
Land == PropertyTypeValue.LAND
ForSale == PropertyStatusValue.FOR_SALE
ForRent == PropertyStatusValue.FOR_RENT
Pending == PropertyStatusValue.PENDING
Sold == PropertyStatusValue.SOLD
Buyer == ClientTypeValue.BUYER
Seller == ClientTypeValue.SELLER

\* the dict add_property_interactive builds (lines 376-391); bathrooms are
\* counted in half baths
PropertyData(address, city, ptype, status, price, bedrooms) ==
    [address |-> S(address), city |-> S(city), state |-> S(<<"N","Y">>),
     zip_code |-> S(<<"1","0","0","0","1">>),
     property_type |-> S(ptype), status |-> S(status),
     price |-> N(price), bedrooms |-> N(bedrooms), bathrooms |-> N(5),
     square_feet |-> N(2200), year_built |-> N(2010),
     description |-> S(<<"t","o","w","n","h","o","u","s","e">>),
     listing_date |-> S(<<"2","0","2","4","-","0","1","-","1","5">>),
     features |-> L(<<S(<<"P","o","o","l">>), S(<<"P","o","o","l">>)>>)]

\* the dict add_client_interactive builds (lines 398-411)
ClientData(name, ctype, budget, preferences) ==
    [first_name |-> S(name), last_name |-> S(<<"D","o","e">>),
     email |-> S(<<"j","@","x">>), phone |-> S(<<"5","5","5">>),
     client_type |-> S(ctype), budget |-> N(budget),
     preferences |-> preferences, notes |-> S(<<>>)]

----------------------------------------------------------------------------
(* Persistence *)

\* a file that does not exist (open raises FileNotFoundError), and one that
\* holds a JSON array
Missing == [exists |-> FALSE, data |-> <<>>]
File(data) == [exists |-> TRUE, data |-> data]

\* x.value: only an Enum member has the attribute
HasValue(x) == x.t \in {"PropertyType", "PropertyStatus", "ClientType"}

AttributeError == [raised |-> "AttributeError"]

\* asdict(record) with each Enum field replaced by its value
Serialise(record, enumFields) ==
    [f \in DOMAIN record |->
        IF f \in enumFields THEN EnumValue(record[f]) ELSE record[f]]

\* the conversion loop of save_data finds .value on every Enum field
Serialisable(records, enumFields) ==
    \A i \in 1..Len(records) : \A f \in enumFields : HasValue(records[i].val[f])

\* save_data: both files are rewritten from the whole collections.  Every
\* property is converted before properties.json is opened, and every client
\* after it has been written; a field that is no Enum member raises
\* AttributeError at its conversion.
save_data(props, clis) ==
    LET properties_json ==
            File([i \in 1..Len(props) |->
                    Serialise(props[i].val, {"property_type", "status"})])
        clients_json ==
            File([i \in 1..Len(clis) |->
                    Serialise(clis[i].val, {"client_type"})])
    IN IF ~Serialisable(props, {"property_type", "status"})
       THEN AttributeError
       ELSE IF ~Serialisable(clis, {"client_type"})
       THEN [raised |-> "AttributeError", properties |-> properties_json]
       ELSE [properties |-> properties_json, clients |-> clients_json]

\* the files after save_data has returned or raised
Written(files, saved) ==
    IF ~("raised" \in DOMAIN saved) THEN saved
    ELSE IF "properties" \in DOMAIN saved
    THEN [files EXCEPT !.properties = saved.properties]
    ELSE files

RECURSIVE LoadProperties(_, _)
LoadProperties(file, d) ==
    IF file = <<>> THEN d
    ELSE LET prop == Head(file)
             p1 == With(prop, "property_type", PropertyType(prop.property_type))
             p2 == With(p1, "status", PropertyStatus(p1.status))
         IN LoadProperties(Tail(file), SetItem(d, p2.property_id, Property(p2)))

RECURSIVE LoadClients(_, _)
LoadClients(file, d) ==
    IF file = <<>> THEN d
    ELSE LET client == Head(file)
             c1 == With(client, "client_type", ClientType(client.client_type))
         IN LoadClients(Tail(file), SetItem(d, c1.client_id, Client(c1)))

\* load_data: a missing file leaves the collection empty
load_data(files) ==
    [properties |-> IF ~files.properties.exists THEN <<>>
                    ELSE LoadProperties(files.properties.data, <<>>),
     clients |-> IF ~files.clients.exists THEN <<>>
                 ELSE LoadClients(files.clients.data, <<>>)]

\* RealEstateManagementSystem(): empty collections, then load_data
Construct(files) ==
    /\ disk = files
    /\ properties = load_data(files).properties
    /\ clients = load_data(files).clients
    /\ op = "init"
    /\ arg = None
    /\ ret = [value |-> None]

----------------------------------------------------------------------------
(* The store's operations *)

add_property(property_data) ==
    LET property_id == PropertyId(Len(properties) + 1)
        d1 == With(property_data, "property_id", property_id)
        ptype == PropertyType(d1.property_type)
        d2 == With(d1, "property_type", ptype)
        status == PropertyStatus(d2.status)
        d3 == With(d2, "status", status)
        property == Property(d3)
    IN /\ op' = "add_property"
       /\ arg' = property_data
          /\ UNCHANGED clients
       /\ IF Raised(ptype)
          THEN /\ ret' = [raised |-> ptype.raised, property_data |-> d1]
               /\ UNCHANGED <<properties, disk>>
          ELSE IF Raised(status)
          THEN /\ ret' = [raised |-> status.raised, property_data |-> d2]
               /\ UNCHANGED <<properties, disk>>
          ELSE IF Raised(property)
          THEN /\ ret' = [raised |-> property.raised, property_data |-> d3]
               /\ UNCHANGED <<properties, disk>>
          ELSE /\ properties' = SetItem(properties, property_id, property)
               /\ LET saved == save_data(properties', clients)
                  IN /\ disk' = Written(disk, saved)
                     /\ ret' = IF Raised(saved)
                               THEN [raised |-> saved.raised, property_data |-> d3]
                               ELSE [value |-> property_id, property_data |-> d3]

add_client(client_data) ==
    LET client_id == ClientId(Len(clients) + 1)
        d1 == With(client_data, "client_id", client_id)
        ctype == ClientType(d1.client_type)
        d2 == With(d1, "client_type", ctype)
        d3 == With(d2, "interested_properties",
                   IF "interested_properties" \in DOMAIN d2
                   THEN d2.interested_properties ELSE L(<<>>))
        client == Client(d3)
    IN /\ op' = "add_client"
       /\ arg' = client_data
          /\ UNCHANGED properties
       /\ IF Raised(ctype)
          THEN /\ ret' = [raised |-> ctype.raised, client_data |-> d1]
               /\ UNCHANGED <<clients, disk>>
          ELSE IF Raised(client)
          THEN /\ ret' = [raised |-> client.raised, client_data |-> d3]
               /\ UNCHANGED <<clients, disk>>
          ELSE /\ clients' = SetItem(clients, client_id, client)
               /\ LET saved == save_data(properties, clients')
                  IN /\ disk' = Written(disk, saved)
                     /\ ret' = IF Raised(saved)
                               THEN [raised |-> saved.raised, client_data |-> d3]
                               ELSE [value |-> client_id, client_data |-> d3]

\* an update without the membership test: the subscript raises KeyError
\* for an identifier the collection does not hold
update_property_status_unchecked(property_id, new_status) ==
    /\ op' = "update_property_status"
    /\ arg' = <<property_id, new_status>>
    /\ UNCHANGED clients
    /\ IF property_id \in Keys(properties)
       THEN /\ properties' =
                 SetItem(properties, property_id,
                         With(Get(properties, property_id), "status", new_status))
            /\ LET saved == save_data(properties', clients)
               IN /\ disk' = Written(disk, saved)
                  /\ ret' = IF Raised(saved)
                            THEN [raised |-> saved.raised]
                            ELSE [value |-> None, printed |-> "status updated"]
       ELSE /\ UNCHANGED <<properties, disk>>
            /\ ret' = [raised |-> "KeyError"]

\* the found branch assigns the status, saves and prints; the other only
\* prints; both return None.  new_status is stored as it is given: when it
\* is no Enum member the assignment stands and save_data raises.
update_property_status(property_id, new_status) ==
    /\ op' = "update_property_status"
    /\ arg' = <<property_id, new_status>>
    /\ UNCHANGED clients
    /\ IF property_id \in Keys(properties)
       THEN /\ properties' =
                 SetItem(properties, property_id,
                         With(Get(properties, property_id), "status", new_status))
            /\ LET saved == save_data(properties', clients)
               IN /\ disk' = Written(disk, saved)
                  /\ ret' = IF Raised(saved)
                            THEN [raised |-> saved.raised]
                            ELSE [value |-> None, printed |-> "status updated"]
       ELSE /\ UNCHANGED <<properties, disk>>
            /\ ret' = [value |-> None, printed |-> "not found"]

----------------------------------------------------------------------------
(* Criteria search.  criteria is the keyword dict, as the sequence of its  *)
(* <<key, value>> items.                                                   *)

\* hasattr(record, key), for keys that are not names every Python object
\* has: the attributes of a dataclass instance are its fields
hasattr(record, key) == key \in DOMAIN record

\* a matcher in which a criterion on an attribute the record lacks fails
RECURSIVE PropertyMatch_strict(_, _)
PropertyMatch_strict(prop, criteria) ==
    IF criteria = <<>> THEN TRUE
    ELSE LET key == Head(criteria)[1]
             value == Head(criteria)[2]
         IN IF hasattr(prop, key)
            THEN LET prop_value ==
                         IF \/ isinstance(prop[key], "PropertyType")
                            \/ isinstance(prop[key], "PropertyStatus")
                         THEN EnumValue(prop[key]) ELSE prop[key]
                 IN IF isinstance(value, "str") /\ isinstance(prop_value, "str")
                    THEN IF ~StrIn(lower(value.v), lower(prop_value.v))
                         THEN FALSE
                         ELSE PropertyMatch_strict(prop, Tail(criteria))
                    ELSE IF ~PyEq(value, prop_value)
                         THEN FALSE
                         ELSE PropertyMatch_strict(prop, Tail(criteria))
            ELSE FALSE

\* one record against the criteria: the inner for loop with its breaks
RECURSIVE PropertyMatch(_, _)
PropertyMatch(prop, criteria) ==
    IF criteria = <<>> THEN TRUE
    ELSE LET key == Head(criteria)[1]
             value == Head(criteria)[2]
         IN IF hasattr(prop, key)
            THEN LET prop_value ==
                         IF \/ isinstance(prop[key], "PropertyType")
                            \/ isinstance(prop[key], "PropertyStatus")
                         THEN EnumValue(prop[key]) ELSE prop[key]
                 IN IF isinstance(value, "str") /\ isinstance(prop_value, "str")
                    THEN IF ~StrIn(lower(value.v), lower(prop_value.v))
                         THEN FALSE
                         ELSE PropertyMatch(prop, Tail(criteria))
                    ELSE IF ~PyEq(value, prop_value)
                         THEN FALSE
                         ELSE PropertyMatch(prop, Tail(criteria))
            ELSE PropertyMatch(prop, Tail(criteria))

RECURSIVE ClientMatch(_, _)
ClientMatch(client, criteria) ==
    IF criteria = <<>> THEN TRUE
    ELSE LET key == Head(criteria)[1]
             value == Head(criteria)[2]
         IN IF hasattr(client, key)
            THEN LET client_value ==
                         IF isinstance(client[key], "ClientType")
                         THEN EnumValue(client[key]) ELSE client[key]
                 IN IF isinstance(value, "str") /\ isinstance(client_value, "str")
                    THEN IF ~StrIn(lower(value.v), lower(client_value.v))
                         THEN FALSE
                         ELSE ClientMatch(client, Tail(criteria))
                    ELSE IF ~PyEq(value, client_value)
                         THEN FALSE
                         ELSE ClientMatch(client, Tail(criteria))
            ELSE ClientMatch(client, Tail(criteria))

\* the outer loop: the matching records, in the dict's order
RECURSIVE SearchLoop(_, _, _)
SearchLoop(records, criteria, isProperty) ==
    IF records = <<>> THEN <<>>
    ELSE LET match == IF isProperty THEN PropertyMatch(Head(records), criteria)
                      ELSE ClientMatch(Head(records), criteria)
             rest == SearchLoop(Tail(records), criteria, isProperty)
         IN IF match THEN <<Head(records)>> \o rest ELSE rest

SearchProperties(criteria) == SearchLoop(Values(properties), criteria, TRUE)

SearchClients(criteria) == SearchLoop(Values(clients), criteria, FALSE)

search_properties(criteria) ==
    /\ op' = "search_properties"
    /\ arg' = criteria
    /\ ret' = [value |-> SearchProperties(criteria)]
    /\ UNCHANGED <<properties, clients, disk>>

search_clients(criteria) ==
    /\ op' = "search_clients"
    /\ arg' = criteria
    /\ ret' = [value |-> SearchClients(criteria)]
    /\ UNCHANGED <<properties, clients, disk>>

----------------------------------------------------------------------------
(* The interactive property search (RealEstateApp), for typed answers that *)
(* are empty (skipped) or, for the numeric fields, decimal digits.          *)

DigitValue(c) == (CHOOSE i \in 1..10 : DigitChar[i] = c) - 1

\* int(value) and float(value) on a string of decimal digits
RECURSIVE int(_)
int(chars) ==
    IF Len(chars) = 1 THEN DigitValue(chars[1])
    ELSE 10 * int(SubSeq(chars, 1, Len(chars) - 1)) + DigitValue(chars[Len(chars)])

DictHas(d, key) == \E i \in 1..Len(d) : d[i][1] = key

DictGet(d, key, default) ==
    IF DictHas(d, key) THEN d[CHOOSE i \in 1..Len(d) : d[i][1] = key][2]
    ELSE default

DictSet(d, key, value) ==
    IF DictHas(d, key)
    THEN [i \in 1..Len(d) |-> IF d[i][1] = key THEN <<key, value>> ELSE d[i]]
    ELSE Append(d, <<key, value>>)

SearchFields == <<"city", "property_type", "status", "bedrooms", "min_price", "max_price">>

\* the loop over the prompts (lines 423-435); answers maps a field to the
\* characters typed
RECURSIVE BuildCriteria(_, _, _)
BuildCriteria(fields, answers, criteria) ==
    IF fields = <<>> THEN criteria
    ELSE LET field == Head(fields)
             value == answers[field]
             range == DictGet(criteria, "price_range", T(<<N(0), Inf>>))
             next ==
                 IF value = <<>> THEN criteria
                 ELSE IF field = "bedrooms"
                 THEN DictSet(criteria, field, N(int(value)))
                 ELSE IF field = "min_price"
                 THEN DictSet(criteria, "price_range", T(<<N(int(value)), range.v[2]>>))
                 ELSE IF field = "max_price"
                 THEN DictSet(criteria, "price_range", T(<<range.v[1], N(int(value))>>))
                 ELSE DictSet(criteria, field, S(value))
         IN BuildCriteria(Tail(fields), answers, next)

\* the dict comprehension of lines 438-439
RECURSIVE WithoutKeys(_, _)
WithoutKeys(d, keys) ==
    IF d = <<>> THEN <<>>
    ELSE IF Head(d)[1] \in keys THEN WithoutKeys(Tail(d), keys)
    ELSE <<Head(d)>> \o WithoutKeys(Tail(d), keys)

\* the list comprehension of line 443
RECURSIVE PriceFilter(_, _, _)
PriceFilter(results, min_price, max_price) ==
    IF results = <<>> THEN <<>>
    ELSE LET p == Head(results)
             rest == PriceFilter(Tail(results), min_price, max_price)
         IN IF NumLe(min_price, p.price) /\ NumLe(p.price, max_price)
            THEN <<p>> \o rest ELSE rest

InteractiveResults(answers) ==
    LET criteria == BuildCriteria(SearchFields, answers, <<>>)
        results == SearchProperties(WithoutKeys(criteria, {"min_price", "max_price"}))
    IN IF DictHas(criteria, "price_range")
       THEN PriceFilter(results, DictGet(criteria, "price_range", None).v[1],
                        DictGet(criteria, "price_range", None).v[2])
       ELSE results

\* the results are printed, nothing is returned
search_properties_interactive(answers) ==
    /\ op' = "search_properties_interactive"
    /\ arg' = answers
    /\ ret' = [value |-> None, results |-> InteractiveResults(answers)]
    /\ UNCHANGED <<properties, clients, disk>>

----------------------------------------------------------------------------
(* Client-property matching *)

PropertyTypePoints == 30
BedroomsPoints == 25
CityPoints == 20
MaxPricePoints == 15
MinimumThreshold == 40
TopMatches == 5

\* 'key' in preferences
HasPreference(preferences, key) == key \in DOMAIN preferences.v

\* a test that takes a property for rent as available too
Available_rent(prop) ==
    prop.status \in {Member("PropertyStatus", "FOR_SALE"),
                     Member("PropertyStatus", "PENDING"),
                     Member("PropertyStatus", "FOR_RENT")}

\* prop.status in [PropertyStatus.FOR_SALE, PropertyStatus.PENDING]
Available(prop) ==
    prop.status \in {Member("PropertyStatus", "FOR_SALE"),
                     Member("PropertyStatus", "PENDING")}

\* a gate that allows 20% over budget
FitsBudget_loose(prop, budget) == 10 * prop.price.v <= 12 * budget.v

\* prop.price <= budget * 1.1.  For amounts in whole units (and in whole
\* cents) the double-precision product falls on the same side of the price
\* as the exact 11/10 of the budget.
FitsBudget(prop, budget) == 10 * prop.price.v <= 11 * budget.v

\* a score that wants more bedrooms than the preference asks for
MatchScore_strict(prop, preferences) ==
    (IF /\ HasPreference(preferences, "property_type")
        /\ PyEq(EnumValue(prop.property_type), preferences.v.property_type)
     THEN PropertyTypePoints ELSE 0)
    + (IF /\ HasPreference(preferences, "bedrooms")
          /\ prop.bedrooms.v > preferences.v.bedrooms.v
       THEN BedroomsPoints ELSE 0)
    + (IF /\ HasPreference(preferences, "city")
          /\ StrIn(lower(preferences.v.city.v), lower(prop.city.v))
       THEN CityPoints ELSE 0)
    + (IF /\ HasPreference(preferences, "max_price")
          /\ prop.price.v <= preferences.v.max_price.v
       THEN MaxPricePoints ELSE 0)

\* the four preference checks of lines 322-339
MatchScore(prop, preferences) ==
    (IF /\ HasPreference(preferences, "property_type")
        /\ PyEq(EnumValue(prop.property_type), preferences.v.property_type)
     THEN PropertyTypePoints ELSE 0)
    + (IF /\ HasPreference(preferences, "bedrooms")
          /\ prop.bedrooms.v >= preferences.v.bedrooms.v
       THEN BedroomsPoints ELSE 0)
    + (IF /\ HasPreference(preferences, "city")
          /\ StrIn(lower(preferences.v.city.v), lower(prop.city.v))
       THEN CityPoints ELSE 0)
    + (IF /\ HasPreference(preferences, "max_price")
          /\ prop.price.v <= preferences.v.max_price.v
       THEN MaxPricePoints ELSE 0)

\* a threshold of 30
Accepted_low(match_score) == match_score >= MinimumThreshold - 10

Accepted(match_score) == match_score >= MinimumThreshold

\* the loop over self.properties.values() for one client
RECURSIVE SuitableProperties(_, _)
SuitableProperties(props, client) ==
    IF props = <<>> THEN <<>>
    ELSE LET prop == Head(props)
             rest == SuitableProperties(Tail(props), client)
             match_score == MatchScore(prop, client.preferences)
         IN IF /\ Available(prop)
               /\ FitsBudget(prop, client.budget)
               /\ Accepted(match_score)
            THEN <<[property |-> prop, match_score |-> match_score]>> \o rest
            ELSE rest

\* a sort that puts x in front of the entries of its own score
RECURSIVE Insert_unstable(_, _)
Insert_unstable(sorted, x) ==
    IF sorted = <<>> THEN <<x>>
    ELSE IF Head(sorted).match_score > x.match_score
    THEN <<Head(sorted)>> \o Insert_unstable(Tail(sorted), x)
    ELSE <<x>> \o sorted

\* list.sort(key=match_score, reverse=True): a stable sort, where entries of
\* equal score keep their order.  Insert puts x behind every entry whose
\* score is at least x's.
RECURSIVE Insert(_, _)
Insert(sorted, x) ==
    IF sorted = <<>> THEN <<x>>
    ELSE IF Head(sorted).match_score >= x.match_score
    THEN <<Head(sorted)>> \o Insert(Tail(sorted), x)
    ELSE <<x>> \o sorted

RECURSIVE SortByScore(_, _)
SortByScore(list, sorted) ==
    IF list = <<>> THEN sorted
    ELSE SortByScore(Tail(list), Insert(sorted, Head(list)))

\* suitable_properties[:5]
Top(list) == SubSeq(list, 1, IF Len(list) < TopMatches THEN Len(list) ELSE TopMatches)

\* a matcher that takes every client for a buyer
IsBuyer_any(client) == client.client_type \in Members("ClientType")

IsBuyer(client) == PyEq(client.client_type, Member("ClientType", "BUYER"))

\* the loop over self.clients.values()
RECURSIVE MatchLoop(_, _)
MatchLoop(clis, matches) ==
    IF clis = <<>> THEN matches
    ELSE LET client == Head(clis)
         IN IF IsBuyer(client)
            THEN MatchLoop(Tail(clis),
                    SetItem(matches, client.client_id,
                        Top(SortByScore(SuitableProperties(Values(properties), client),
                                        <<>>))))
            ELSE MatchLoop(Tail(clis), matches)

match_clients_to_properties ==
    /\ op' = "match_clients_to_properties"
    /\ arg' = None
    /\ ret' = [value |-> MatchLoop(Values(clients), <<>>)]
    /\ UNCHANGED <<properties, clients, disk>>

----------------------------------------------------------------------------
(* Inputs *)

Preferences(ptype, bedrooms, city) ==
    D([property_type |-> S(ptype), bedrooms |-> N(bedrooms), city |-> S(city)])

\* the two sample properties of initialize_sample_data, and two records
\* whose type or status is no value of the enumeration
MainSt == PropertyData(<<"1","2","3">>, NewYork, Residential, ForSale, 750000, 3)
OakAve == PropertyData(<<"4","5","6">>, LosAngeles, Commercial, ForRent, 5000, 0)
BadType == PropertyData(<<"7">>, Newark, <<"H","o","u","s","e">>, ForSale, 1, 1)
BadStatus == PropertyData(<<"8">>, Newark, Land, <<"O","p","e","n">>, 1, 1)

\* the sample client, a seller, and a client of no known type
John == ClientData(<<"J","o","h","n">>, Buyer, 800000, Preferences(Residential, 3, NewYork))
Sue == ClientData(<<"S","u","e">>, Seller, 0, D(<<>>))
BadClient == ClientData(<<"X">>, <<"I","n","v","e","s","t","o","r">>, 0, D(<<>>))

\* a caller of add_property that passes the Enum members themselves
OakAveTyped ==
    With(With(OakAve, "property_type", Member("PropertyType", "COMMERCIAL")),
         "status", Member("PropertyStatus", "FOR_RENT"))

PropertyInputs == {MainSt, OakAveTyped, BadType, BadStatus}
ClientInputs == {John, Sue, BadClient}

\* the sequences over a set, up to a length
SeqUpTo(set, n) == UNION {[1..k -> set] : k \in 0..n}

\* a record as it stands in properties.json / clients.json
PropertyJson(data, n) == With(data, "property_id", PropertyId(n))
ClientJson(data, n) ==
    With(With(data, "client_id", ClientId(n)), "interested_properties", L(<<>>))

\* the largest collections the model builds
MaxProperties == 2
MaxClients == 1

\* what the data directory may hold when the system is constructed.  The
\* files need not have been written by this program: identifiers may be any
\* strings, in any order, and one may occur twice.
PropertyFiles ==
    {Missing, File(<<>>),
     File(<<PropertyJson(MainSt, 1), PropertyJson(OakAve, 2)>>),
     File(<<PropertyJson(OakAve, 2)>>),
     File(<<PropertyJson(MainSt, 3), PropertyJson(OakAve, 1)>>),
     File(<<PropertyJson(MainSt, 1), PropertyJson(OakAve, 1)>>)}

ClientFiles ==
    {Missing, File(<<ClientJson(John, 1)>>), File(<<ClientJson(Sue, 2)>>)}

Files == [properties : PropertyFiles, clients : ClientFiles]

\* the identifiers update_property_status is called with
KnownIds == {PropertyId(n) : n \in 1..(MaxProperties + 1)}

----------------------------------------------------------------------------
(* The store and the matcher *)

Init == \E files \in Files : Construct(files)

AddProperty ==
    \E d \in PropertyInputs : Len(properties) < MaxProperties /\ add_property(d)

AddClient ==
    \E d \in ClientInputs : Len(clients) < MaxClients /\ add_client(d)

\* the statuses update_property_status is called with: one that keeps a
\* property on the market, and two that take it off
NewStatuses ==
    {Member("PropertyStatus", "PENDING"), Member("PropertyStatus", "SOLD"),
     Member("PropertyStatus", "FOR_RENT")}

UpdatePropertyStatus ==
    \E id \in KnownIds, st \in NewStatuses : update_property_status(id, st)

MatchClientsToProperties == match_clients_to_properties

Next == AddProperty \/ AddClient \/ UpdatePropertyStatus \/ MatchClientsToProperties

Spec == Init /\ [][Next]_vars

----------------------------------------------------------------------------
(* Claims about the store *)

Returned == "value" \in DOMAIN ret

\* C1: every add assigns a fresh identifier: the identifier returned was no
\* key of the collection before the call, every record that was there is
\* still there unchanged, and the collection has grown by exactly one.
C1_FreshIdentifier ==
    [][/\ (op' = "add_property" /\ "value" \in DOMAIN ret') =>
            /\ ret'.value \notin Keys(properties)
            /\ Len(properties') = Len(properties) + 1
            /\ SubSeq(properties', 1, Len(properties)) = properties
       /\ (op' = "add_client" /\ "value" \in DOMAIN ret') =>
            /\ ret'.value \notin Keys(clients)
            /\ Len(clients') = Len(clients) + 1
            /\ SubSeq(clients', 1, Len(clients)) = clients]_vars

InputFields == PropertyFields \ {"property_id", "agent_id"}

\* the string an enum field was given as: the value of a member, or the
\* string itself
GivenAs(x) == IF x.t = "str" THEN x ELSE S(EnumTable(x.t)[x.v])

\* C2: after add_property(r) has returned i, the record stored under i
\* equals r in every input field.  r is the caller's dict, in which
\* add_property has replaced an enum field given as a string by the Enum
\* member; the record also agrees with the dict as it was passed: the same
\* value in every other field, and in property_type and status the member
\* that was passed or the member whose value is the string that was passed.
C2_RoundTrip ==
    (op = "add_property" /\ Returned) =>
        /\ ret.value \in Keys(properties)
        /\ LET record == Get(properties, ret.value)
           IN /\ DOMAIN arg = InputFields
              /\ \A f \in InputFields : PyEq(record[f], ret.property_data[f])
              /\ \A f \in InputFields \ {"property_type", "status"} :
                    PyEq(record[f], arg[f])
              /\ record.property_type.t = "PropertyType"
              /\ record.property_type.v \in DOMAIN PropertyTypeValue
              /\ S(PropertyTypeValue[record.property_type.v]) = GivenAs(arg.property_type)
              /\ record.status.t = "PropertyStatus"
              /\ record.status.v \in DOMAIN PropertyStatusValue
              /\ S(PropertyStatusValue[record.status.v]) = GivenAs(arg.status)
              /\ arg.property_type.t # "str" => PyEq(record.property_type, arg.property_type)
              /\ arg.status.t # "str" => PyEq(record.status, arg.status)
              /\ PyEq(record.property_id, ret.value)

\* a property has been added over a loaded store and reads back
C2_Witness ==
    /\ op = "add_property" /\ Returned
    /\ arg = MainSt
    /\ Len(properties) = 2
    /\ Get(properties, ret.value).property_type = Member("PropertyType", "RESIDENTIAL")
    /\ Get(properties, ret.value).price = N(750000)
    /\ Get(properties, ret.value).state = S(<<"N","Y">>)

----------------------------------------------------------------------------
(* The searches, over a store loaded from the sample files *)

NewarkLot == PropertyData(<<"9">>, Newark, Land, Pending, 300000, 3)

SearchListings == {MainSt, OakAve, NewarkLot}

SearchFiles ==
    [properties : {Missing,
                   File(<<PropertyJson(MainSt, 1), PropertyJson(OakAve, 2)>>)},
     clients : {File(<<ClientJson(John, 1), ClientJson(Sue, 2)>>)}]

\* the largest property collection searched
MaxSearched == 2

\* keyword arguments of search_properties: none, strings in either case,
\* numbers, a string for a numeric field, an Enum member, attributes a
\* Property does not have, and pairs of these
PropertyCriteria ==
    {<<>>,
     <<<<"city", S(<<"n","e","w">>)>>>>,
     <<<<"city", S(UpperNewYork)>>>>,
     <<<<"city", S(<<"n","e","w","a","r","k","x","y","z">>)>>>>,
     <<<<"city", N(3)>>>>,
     <<<<"property_type", S(<<"r","e","s">>)>>>>,
     <<<<"status", S(<<"F","O","R">>)>>>>,
     <<<<"status", Member("PropertyStatus", "FOR_SALE")>>>>,
     <<<<"bedrooms", N(3)>>>>,
     <<<<"bedrooms", S(<<"3">>)>>>>,
     <<<<"price", N(750000)>>>>,
     <<<<"agent_id", None>>>>,
     <<<<"garage", S(<<"y","e","s">>)>>>>,
     <<<<"price_range", T(<<N(0), Inf>>)>>>>,
     <<<<"city", S(<<"n","e","w">>)>>, <<"bedrooms", N(3)>>>>,
     <<<<"bedrooms", N(3)>>, <<"city", S(<<"a","r","k">>)>>>>,
     <<<<"city", S(<<"n","e","w">>)>>, <<"garage", S(<<"y","e","s">>)>>>>,
     <<<<"garage", S(<<"n","o">>)>>, <<"city", S(<<"l","o","s">>)>>>>}

ClientCriteria ==
    {<<>>,
     <<<<"first_name", S(<<"J","O">>)>>>>,
     <<<<"client_type", S(<<"b","u","y">>)>>>>,
     <<<<"client_type", Member("ClientType", "BUYER")>>>>,
     <<<<"budget", N(800000)>>>>,
     <<<<"vip", S(<<"y","e","s">>)>>>>,
     <<<<"vip", N(1)>>, <<"first_name", S(<<"s","u">>)>>>>}

\* what is typed at the six prompts; an empty answer skips the field
Answers ==
    [city : {<<>>, <<"n","e","w">>},
     property_type : {<<>>},
     status : {<<>>},
     bedrooms : {<<>>, <<"3">>},
     min_price : {<<>>, <<"3","0","0","0","0","0">>, <<"5","0","0","1">>},
     max_price : {<<>>, <<"7","5","0","0","0","0">>, <<"2","9","9","9","9","9">>}]

AddListing ==
    \E d \in SearchListings : Len(properties) < MaxSearched /\ add_property(d)

SearchPropertiesCall == \E criteria \in PropertyCriteria : search_properties(criteria)

SearchClientsCall == \E criteria \in ClientCriteria : search_clients(criteria)

SearchInteractive == \E answers \in Answers : search_properties_interactive(answers)

InitSearch == \E files \in SearchFiles : Construct(files)

NextSearch == AddListing \/ SearchPropertiesCall \/ SearchClientsCall \/ SearchInteractive

SpecSearch == InitSearch /\ [][NextSearch]_vars

----------------------------------------------------------------------------
(* Claims about the searches *)

IsSearch == op \in {"search_properties", "search_clients"}

Searched == IF op = "search_clients" THEN Values(clients) ELSE Values(properties)

InSeq(x, seq) == \E i \in 1..Len(seq) : seq[i] = x

\* C3 as the specification states it: a record is absent from the result
\* of a search when some criterion names a field the record does not have.
C3_MissingAttributeFails ==
    IsSearch =>
        \A i \in 1..Len(Searched) :
            (\E j \in 1..Len(arg) : arg[j][1] \notin DOMAIN Searched[i])
                => ~InSeq(Searched[i], ret.value)

\* the criteria that name a field of the record
RECURSIVE OnFieldsOf(_, _)
OnFieldsOf(criteria, fields) ==
    IF criteria = <<>> THEN <<>>
    ELSE IF Head(criteria)[1] \in fields
    THEN <<Head(criteria)>> \o OnFieldsOf(Tail(criteria), fields)
    ELSE OnFieldsOf(Tail(criteria), fields)

\* C3, amended: a criterion that names a field the record does not have is
\* ignored.  The result of a search is the result of the search with those
\* criteria left out, and under criteria that name no field of the records
\* every record is returned.
C3_MissingAttributeIgnored ==
    IsSearch =>
        /\ op = "search_properties" =>
              ret.value = SearchLoop(Searched, OnFieldsOf(arg, PropertyFields), TRUE)
        /\ op = "search_clients" =>
              ret.value = SearchLoop(Searched, OnFieldsOf(arg, ClientFields), FALSE)
        /\ (\A j \in 1..Len(arg) : arg[j][1] \notin PropertyFields \cup ClientFields)
              => ret.value = Searched

\* a search on an unknown attribute alone, and one on an unknown attribute
\* next to a criterion that selects, have returned records
C3_Witness ==
    /\ op = "search_properties"
    /\ Len(arg) = 2
    /\ arg[1][1] = "garage"
    /\ Len(properties) = 2
    /\ Len(ret.value) = 1

\* the comparison rule, stated on the characters: a occurs in b
Occurs(a, b) ==
    \E pre \in 0..Len(b) :
        /\ pre + Len(a) <= Len(b)
        /\ \A k \in 1..Len(a) : LowerChar(a[k]) = LowerChar(b[pre + k])

Unwrapped(x) ==
    IF x.t \in {"PropertyType", "PropertyStatus", "ClientType"}
    THEN S(EnumTable(x.t)[x.v]) ELSE x

CriterionPasses(expected, attribute) ==
    LET actual == Unwrapped(attribute)
    IN IF expected.t = "str" /\ actual.t = "str"
       THEN Occurs(expected.v, actual.v)
       ELSE expected.t = actual.t /\ expected.v = actual.v

EveryCriterionPasses(record, criteria) ==
    \A j \in 1..Len(criteria) :
        CriterionPasses(criteria[j][2], record[criteria[j][1]])

\* C4: under criteria on fields of Property, search_properties returns, in
\* the order of the store, exactly the records for which every criterion
\* passes: a case-insensitive substring test when the expected value and
\* the (unwrapped) attribute are both strings, equality otherwise.  With no
\* criteria it returns every record.
C4_SearchProperties ==
    (/\ op = "search_properties"
     /\ \A j \in 1..Len(arg) : arg[j][1] \in PropertyFields) =>
        LET Keep(record) == EveryCriterionPasses(record, arg)
        IN /\ ret.value = SelectSeq(Values(properties), Keep)
           /\ arg = <<>> => ret.value = Values(properties)

\* a substring in another case has selected one of two records, by a
\* string criterion and a numeric one together
C4_Witness ==
    /\ op = "search_properties"
    /\ arg = <<<<"bedrooms", N(3)>>, <<"city", S(<<"a","r","k">>)>>>>
    /\ Len(properties) = 2
    /\ Len(ret.value) = 1
    /\ ret.value[1].city = S(Newark)

\* the bounds of the range, as the prompts' answers give them
RangeMin(answers) ==
    IF answers.min_price = <<>> THEN N(0) ELSE N(int(answers.min_price))

RangeMax(answers) ==
    IF answers.max_price = <<>> THEN Inf ELSE N(int(answers.max_price))

Ranged(answers) == answers.min_price # <<>> \/ answers.max_price # <<>>

\* the criteria the other prompts give
PassesAnswers(record, answers) ==
    /\ answers.city # <<>> => Occurs(answers.city, record.city.v)
    /\ answers.property_type # <<>> =>
          Occurs(answers.property_type, Unwrapped(record.property_type).v)
    /\ answers.status # <<>> => Occurs(answers.status, Unwrapped(record.status).v)
    /\ answers.bedrooms # <<>> => record.bedrooms.v = int(answers.bedrooms)

\* C5: a price-ranged search shows exactly the records that pass the other
\* criteria and whose price lies in min..max, both bounds included; min is
\* 0 when only max is given, max is unbounded when only min is given.
C5_PriceRange ==
    (op = "search_properties_interactive" /\ Ranged(arg)) =>
        LET Keep(record) ==
                /\ PassesAnswers(record, arg)
                /\ RangeMin(arg).v <= record.price.v
                /\ (RangeMax(arg).t = "inf" \/ record.price.v <= RangeMax(arg).v)
        IN ret.results = SelectSeq(Values(properties), Keep)

\* a search from 300000 to 750000 has shown a record priced at each bound
C5_Witness ==
    /\ op = "search_properties_interactive"
    /\ arg.min_price = <<"3","0","0","0","0","0">>
    /\ arg.max_price = <<"7","5","0","0","0","0">>
    /\ \E i \in 1..Len(ret.results) : ret.results[i].price = N(300000)
    /\ \E i \in 1..Len(ret.results) : ret.results[i].price = N(750000)

----------------------------------------------------------------------------
(* The matcher, over listings on both sides of the budget gate and of the  *)
(* threshold                                                               *)

\* against John (budget 800000: gate 880000; Residential, 3 bedrooms, New
\* York): MainSt 75; AtLimit 75, priced at the gate; OverLimit one unit
\* above it; NewarkHome 30; LaLand 25; OakAve not on the market
AtLimit == PropertyData(<<"2">>, NewYork, Residential, Pending, 880000, 3)
OverLimit == PropertyData(<<"3">>, UpperNewYork, Residential, ForSale, 880001, 4)
NewarkHome == PropertyData(<<"5">>, Newark, Residential, ForSale, 500000, 2)
LaLand == PropertyData(<<"6">>, LosAngeles, Land, ForSale, 300000, 3)

\* Bea (budget 500000: gate 550000) states all four preferences: MainSt
\* would score 90, the most there is, and is above her gate; NewarkHome
\* scores 90, LaLand 40
Bea == ClientData(<<"B","e","a">>, Buyer, 500000,
           D([property_type |-> S(Residential), bedrooms |-> N(2),
              city |-> S(<<"n","e","w">>), max_price |-> N(900000)]))

\* a buyer whose only preference is one the matcher does not know, and a
\* seller with John's budget and preferences
Carl == ClientData(<<"C","a","r","l">>, Buyer, 800000,
            D([pool |-> S(<<"y","e","s">>)]))
Sam == ClientData(<<"S","a","m">>, Seller, 800000, Preferences(Residential, 3, NewYork))

MatchListings == {MainSt, AtLimit, OverLimit, OakAve, NewarkHome, LaLand}

MatchFiles ==
    [properties : {Missing},
     clients : {Missing,
                File(<<ClientJson(John, 1), ClientJson(Sam, 2)>>),
                File(<<ClientJson(Sam, 1), ClientJson(Bea, 2), ClientJson(Carl, 3)>>),
                File(<<ClientJson(Bea, 1), ClientJson(John, 2)>>)}]

\* the largest property collection matched
MaxMatched == 3

AddMatchListing ==
    \E d \in MatchListings : Len(properties) < MaxMatched /\ add_property(d)

InitMatch == \E files \in MatchFiles : Construct(files)

NextMatch == AddMatchListing \/ MatchClientsToProperties

SpecMatch == InitMatch /\ [][NextMatch]_vars

----------------------------------------------------------------------------
(* The ranking, over more listings than the matcher keeps *)

\* against John: MainSt 75, LandNY 45 (bedrooms and city), NewarkHome 30,
\* which is below the threshold
LandNY == PropertyData(<<"7">>, UpperNewYork, Land, Pending, 600000, 3)

RankListings == {MainSt, LandNY, NewarkHome}

RankFiles ==
    [properties : {Missing},
     clients : {File(<<ClientJson(John, 1)>>)}]

\* the largest property collection ranked
MaxRanked == 6

AddRankListing ==
    \E d \in RankListings : Len(properties) < MaxRanked /\ add_property(d)

InitRank == \E files \in RankFiles : Construct(files)

NextRank == AddRankListing \/ MatchClientsToProperties

SpecRank == InitRank /\ [][NextRank]_vars

----------------------------------------------------------------------------
(* Claims about the matcher *)

IsMatch == op = "match_clients_to_properties"

Matches == ret.value

Store == Values(properties)

\* the weights, stated on the fields
ScoreOf(prop, client) ==
    LET prefs == client.preferences.v
    IN (IF /\ "property_type" \in DOMAIN prefs
           /\ prefs.property_type = S(PropertyTypeValue[prop.property_type.v])
        THEN 30 ELSE 0)
       + (IF "bedrooms" \in DOMAIN prefs /\ prop.bedrooms.v >= prefs.bedrooms.v
          THEN 25 ELSE 0)
       + (IF "city" \in DOMAIN prefs /\ Occurs(prefs.city.v, prop.city.v)
          THEN 20 ELSE 0)
       + (IF "max_price" \in DOMAIN prefs /\ prop.price.v <= prefs.max_price.v
          THEN 15 ELSE 0)

OnMarket(prop) == prop.status.v \in {"FOR_SALE", "PENDING"}

Affordable(prop, client) == 10 * prop.price.v <= 11 * client.budget.v

Listed(prop, list) == \E k \in 1..Len(list) : list[k].property = prop

\* C6: every property in a buyer's list costs at most 110% of the buyer's
\* budget; a property on the market that costs more is in no list, whatever
\* its score.
C6_AffordabilityGate ==
    IsMatch =>
        \A e \in 1..Len(Matches) :
            LET buyer == Get(clients, Matches[e].key)
                list == Matches[e].val
            IN /\ \A k \in 1..Len(list) :
                     10 * list[k].property.price.v <= 11 * buyer.budget.v
               /\ \A i \in 1..Len(Store) :
                     10 * Store[i].price.v > 11 * buyer.budget.v
                         => ~Listed(Store[i], list)

\* for John a property at 880000 is listed, and one at 880001 that scores 75
\* is in the store and is not; for Bea a property with the full score of 90
\* is not
C6_Witness ==
    /\ IsMatch
    /\ \E e \in 1..Len(Matches) :
          /\ Get(clients, Matches[e].key).budget = N(800000)
          /\ \E k \in 1..Len(Matches[e].val) :
                Matches[e].val[k].property.price = N(880000)
          /\ \E i \in 1..Len(Store) :
                /\ Store[i].price = N(880001)
                /\ ScoreOf(Store[i], Get(clients, Matches[e].key)) = 75
    /\ \E e \in 1..Len(Matches) :
          /\ Get(clients, Matches[e].key).budget = N(500000)
          /\ \E i \in 1..Len(Store) :
                /\ ScoreOf(Store[i], Get(clients, Matches[e].key)) = 90
                /\ OnMarket(Store[i])
                /\ ~Listed(Store[i], Matches[e].val)

\* C7: the score reported with a property is the sum of the weights of the
\* preferences it satisfies (30 type, 25 bedrooms, 20 city, 15 max_price;
\* nothing for a preference that is absent or not one of the four), a whole
\* number from 0 to 100; the sample buyer and the sample listing give 75.
C7_Score ==
    IsMatch =>
        \A e \in 1..Len(Matches) :
            LET buyer == Get(clients, Matches[e].key)
                list == Matches[e].val
            IN \A k \in 1..Len(list) :
                  /\ list[k].match_score = ScoreOf(list[k].property, buyer)
                  /\ list[k].match_score \in 0..100
                  /\ (/\ buyer.budget = N(800000)
                      /\ buyer.preferences = Preferences(Residential, 3, NewYork)
                      /\ list[k].property.price = N(750000)
                      /\ list[k].property.city = S(NewYork)
                      /\ list[k].property.bedrooms = N(3)
                      /\ list[k].property.property_type = Member("PropertyType", "RESIDENTIAL"))
                        => list[k].match_score = 75

\* the sample pair is listed with 75, and a buyer with all four preferences
\* has a listing with all four weights, 90, and one with 40
C7_Witness ==
    /\ IsMatch
    /\ \E e \in 1..Len(Matches) :
          /\ Get(clients, Matches[e].key).preferences = Preferences(Residential, 3, NewYork)
          /\ \E k \in 1..Len(Matches[e].val) :
                /\ Matches[e].val[k].property.price = N(750000)
                /\ Matches[e].val[k].match_score = 75
    /\ \E e \in 1..Len(Matches) :
          /\ \E k \in 1..Len(Matches[e].val) : Matches[e].val[k].match_score = 90
          /\ \E k \in 1..Len(Matches[e].val) : Matches[e].val[k].match_score = 40

\* C8: every listed pair scores at least 40, and a property that is on the
\* market and affordable but scores less is in no list, also when the list
\* has fewer than 5 entries.
C8_Threshold ==
    IsMatch =>
        \A e \in 1..Len(Matches) :
            LET buyer == Get(clients, Matches[e].key)
                list == Matches[e].val
            IN /\ \A k \in 1..Len(list) : list[k].match_score >= 40
               /\ \A i \in 1..Len(Store) :
                     ScoreOf(Store[i], buyer) < 40 => ~Listed(Store[i], list)

\* a property on the market, affordable and scoring 30 is left out of a
\* list of one entry
C8_Witness ==
    /\ IsMatch
    /\ \E e \in 1..Len(Matches) :
          /\ Len(Matches[e].val) = 1
          /\ \E i \in 1..Len(Store) :
                /\ OnMarket(Store[i])
                /\ Affordable(Store[i], Get(clients, Matches[e].key))
                /\ ScoreOf(Store[i], Get(clients, Matches[e].key)) = 30
                /\ ~Listed(Store[i], Matches[e].val)

\* the places in the store of the properties that qualify for a buyer
Candidates(buyer) ==
    {i \in 1..Len(Store) :
        /\ OnMarket(Store[i])
        /\ Affordable(Store[i], buyer)
        /\ ScoreOf(Store[i], buyer) >= 40}

\* the place in the store of a listed property
Place(entry) == CHOOSE i \in 1..Len(Store) : Store[i] = entry.property

Min(a, b) == IF a < b THEN a ELSE b

\* C9: a buyer's list is the first 5 of the candidates sorted by score,
\* highest first, candidates of equal score in the order of the store: it
\* has 5 entries or all the candidates if they are fewer, each entry is a
\* candidate with its score, scores do not increase along it, entries of
\* equal score stand in store order, and a candidate left out scores no
\* more than any entry and, where it scores the same, comes later in the
\* store.
C9_Ranking ==
    IsMatch =>
        \A e \in 1..Len(Matches) :
            LET buyer == Get(clients, Matches[e].key)
                list == Matches[e].val
                cands == Candidates(buyer)
            IN /\ Len(list) <= 5
               /\ Len(list) = Min(5, Cardinality(cands))
               /\ \A k \in 1..Len(list) :
                     /\ \E i \in cands : Store[i] = list[k].property
                     /\ list[k].match_score = ScoreOf(list[k].property, buyer)
               /\ \A k, l \in 1..Len(list) :
                     k < l =>
                        /\ list[k].match_score >= list[l].match_score
                        /\ list[k].match_score = list[l].match_score
                              => Place(list[k]) < Place(list[l])
               /\ \A i \in cands :
                     ~Listed(Store[i], list) =>
                        \A k \in 1..Len(list) :
                           /\ ScoreOf(Store[i], buyer) <= list[k].match_score
                           /\ ScoreOf(Store[i], buyer) = list[k].match_score
                                 => Place(list[k]) < i

\* of six properties all qualify; the list has five, not in store order,
\* two of them with the same score, and the one left out scores the same as
\* the last one listed
C9_Witness ==
    /\ IsMatch
    /\ Len(Store) = 6
    /\ \E e \in 1..Len(Matches) :
          LET buyer == Get(clients, Matches[e].key)
              list == Matches[e].val
          IN /\ Cardinality(Candidates(buyer)) = 6
             /\ Len(list) = 5
             /\ \E k \in 1..4 : Place(list[k]) > Place(list[k + 1])
             /\ \E k \in 1..4 : list[k].match_score = list[k + 1].match_score
             /\ list[1].match_score > list[5].match_score
             /\ \E i \in Candidates(buyer) :
                   /\ ~Listed(Store[i], list)
                   /\ ScoreOf(Store[i], buyer) = list[5].match_score

BuyerIds ==
    {clients[i].key : i \in {j \in 1..Len(clients) :
                                clients[j].val.client_type.v = "BUYER"}}

\* C10: the keys of the result are exactly the identifiers of the clients
\* of type Buyer; a buyer for whom no property qualifies, or when there is
\* no property, is mapped to the empty list.
C10_BuyerKeys ==
    IsMatch =>
        /\ Keys(Matches) = BuyerIds
        /\ Len(Matches) = Cardinality(BuyerIds)
        /\ \A e \in 1..Len(Matches) :
              (\/ properties = <<>>
               \/ \A i \in 1..Len(Store) :
                     \/ ~OnMarket(Store[i])
                     \/ ~Affordable(Store[i], Get(clients, Matches[e].key))
                     \/ ScoreOf(Store[i], Get(clients, Matches[e].key)) < 40)
                => Matches[e].val = <<>>

\* with a seller and two buyers in the store and no property, the result
\* has the two buyers, each with an empty list
C10_Witness ==
    /\ IsMatch
    /\ properties = <<>>
    /\ Len(clients) = 3
    /\ Len(Matches) = 2
    /\ \A e \in 1..Len(Matches) : Matches[e].val = <<>>

----------------------------------------------------------------------------
(* The matcher between status updates: a listing that scores 75 for John   *)
(* is added, and given every status in turn                                *)

Rented == PropertyStatusValue.RENTED

AvailabilityFiles ==
    [properties : {Missing, File(<<PropertyJson(MainSt, 1)>>)},
     clients : {File(<<ClientJson(John, 1)>>)}]

\* the largest property collection whose statuses are updated
MaxListed == 2

ListedIds == {PropertyId(n) : n \in 1..(MaxListed + 1)}

AddAvailableListing ==
    Len(properties) < MaxListed /\ add_property(MainSt)

SetStatus ==
    \E id \in ListedIds, st \in Members("PropertyStatus") :
        update_property_status(id, st)

InitAvailability == \E files \in AvailabilityFiles : Construct(files)

NextAvailability == AddAvailableListing \/ SetStatus \/ MatchClientsToProperties

SpecAvailability == InitAvailability /\ [][NextAvailability]_vars

----------------------------------------------------------------------------
(* The store under updates whose status need not be a member: the          *)
(* annotation of new_status is not enforced, so a string can be given      *)

\* what update_property_status is given as new_status: two members, the
\* value of one, and a string that is no status
NewStatusArguments ==
    {Member("PropertyStatus", "SOLD"), Member("PropertyStatus", "FOR_SALE"),
     S(Sold), S(<<"O","p","e","n">>)}

StatusListings == {MainSt, BadType, BadStatus}

StatusFiles ==
    [properties : {Missing, File(<<PropertyJson(MainSt, 1)>>)},
     clients : {File(<<ClientJson(John, 1)>>)}]

\* the largest property collection updated with such statuses
MaxUpdated == 2

StatusIds == {PropertyId(n) : n \in 1..(MaxUpdated + 1)}

AddStatusListing ==
    \E d \in StatusListings : Len(properties) < MaxUpdated /\ add_property(d)

UpdateStatus ==
    \E id \in StatusIds, st \in NewStatusArguments : update_property_status(id, st)

InitStatus == \E files \in StatusFiles : Construct(files)

NextStatus == AddStatusListing \/ UpdateStatus \/ MatchClientsToProperties

SpecStatus == InitStatus /\ [][NextStatus]_vars

----------------------------------------------------------------------------
(* Claims about status updates *)

IsUpdate == op = "update_property_status"

StatusOf(prop) == IF prop.status.t = "PropertyStatus" THEN prop.status.v ELSE "none"

\* C11: only currently available properties are matched.  A match leaves
\* the store as it is, so the store of the state is the store at the time of
\* the call, and the status of a record is the one its last update gave it:
\* every entry of every buyer's list is a stored property whose status is
\* For Sale or Pending, and a stored property whose status is Sold, Rented
\* or For Rent is in no list, however well it scores.
C11_OnlyAvailable ==
    IsMatch =>
        \A e \in 1..Len(Matches) :
            LET list == Matches[e].val
            IN /\ \A k \in 1..Len(list) :
                     \E i \in 1..Len(Store) :
                         /\ Store[i] = list[k].property
                         /\ StatusOf(Store[i]) \in {"FOR_SALE", "PENDING"}
               /\ \A i \in 1..Len(Store) :
                     StatusOf(Store[i]) \in {"SOLD", "RENTED", "FOR_RENT"}
                         => ~Listed(Store[i], list)

\* two listings that score 75 for John and are within his budget: the one
\* that was updated to Rented is in no list, the one that was updated to
\* Pending is listed
C11_Witness ==
    /\ IsMatch
    /\ Len(Store) = 2
    /\ \E e \in 1..Len(Matches) :
          LET buyer == Get(clients, Matches[e].key)
              list == Matches[e].val
          IN \E i, j \in 1..Len(Store) :
                /\ StatusOf(Store[i]) = "RENTED"
                /\ ScoreOf(Store[i], buyer) = 75
                /\ Affordable(Store[i], buyer)
                /\ ~Listed(Store[i], list)
                /\ StatusOf(Store[j]) = "PENDING"
                /\ Listed(Store[j], list)

\* the records of a collection other than the one stored under id
Others(d, id) == {i \in 1..Len(d) : d[i].key # id}

\* C12 as stated: update_property_status with an identifier that is no key
\* of the property collection fails with an error raised to the caller and
\* leaves both collections unchanged; with a key of the collection it sets
\* the status of that record in place.
C12_NotFoundError ==
    [][op' = "update_property_status" =>
          IF arg'[1] \notin Keys(properties)
          THEN /\ "raised" \in DOMAIN ret'
               /\ UNCHANGED <<properties, clients>>
          ELSE /\ Get(properties', arg'[1]).status = arg'[2]
               /\ UNCHANGED clients]_vars

\* C12, amended: update_property_status with an identifier that is no key of
\* the property collection raises nothing: it prints that the property was
\* not found and returns None, and leaves both collections and both files
\* unchanged.  With a key of the collection it sets the status of that
\* record to the status given, in place: the record keeps its key, its
\* position and every other field, and every other record and the clients
\* are unchanged.
C12_NotFoundPrinted ==
    [][op' = "update_property_status" =>
          LET property_id == arg'[1]
              new_status == arg'[2]
          IN IF property_id \notin Keys(properties)
             THEN /\ ret' = [value |-> None, printed |-> "not found"]
                  /\ UNCHANGED <<properties, clients, disk>>
             ELSE /\ Len(properties') = Len(properties)
                  /\ \A i \in 1..Len(properties) :
                        /\ properties'[i].key = properties[i].key
                        /\ properties[i].key = property_id =>
                              properties'[i].val =
                                  [properties[i].val EXCEPT !.status = new_status]
                  /\ \A i \in Others(properties, property_id) :
                        properties'[i] = properties[i]
                  /\ UNCHANGED clients]_vars

\* an update has not found PROP0003 in a store of two properties, the first
\* of which an earlier update has sold
C12_Witness ==
    /\ IsUpdate
    /\ arg[1] = PropertyId(3)
    /\ ret = [value |-> None, printed |-> "not found"]
    /\ Len(properties) = 2
    /\ PropertyId(3) \notin Keys(properties)
    /\ StatusOf(Store[1]) = "SOLD"
    /\ StatusOf(Store[2]) = "FOR_SALE"

\* x is a member of the enumeration, or the value of one
Enumerated(cls, x) == ~Raised(EnumCall(cls, x))

\* C13: after every add_property and update_property_status call the status
\* and the property_type of every stored property are enumerated values
\* (here even the value of a member, held as a string, is let pass), and a
\* call that is given a type or a status outside the enumeration (for a
\* property the collection holds, when it is an update) raises an error and
\* leaves the collection as it was.
C13_EnumeratedValues ==
    [][/\ \A i \in 1..Len(properties') :
             /\ Enumerated("PropertyStatus", properties'[i].val.status)
             /\ Enumerated("PropertyType", properties'[i].val.property_type)
       /\ (/\ op' = "add_property"
           /\ \/ ~Enumerated("PropertyType", arg'.property_type)
              \/ ~Enumerated("PropertyStatus", arg'.status))
             => ("raised" \in DOMAIN ret' /\ properties' = properties)
       /\ (/\ op' = "update_property_status"
           /\ arg'[1] \in Keys(properties)
           /\ ~Enumerated("PropertyStatus", arg'[2]))
             => ("raised" \in DOMAIN ret' /\ properties' = properties)]_vars

----------------------------------------------------------------------------
(* The mortgage calculator.  loan_amount is carried exactly; the payment   *)
(* and the totals are floats built from powers of 1 + monthly_rate, and    *)
(* are carried by their sign (that of the exact value).                    *)

Sign(n) == IF n > 0 THEN 1 ELSE IF n < 0 THEN -1 ELSE 0

\* a float of which the sign is known
Signed(sign) == [t |-> "float", sign |-> sign]

ZeroDivisionError == [raised |-> "ZeroDivisionError"]

\* No argument is tested.  With monthly_rate > 0 the payment is
\* loan_amount * (r * (1+r)^n) / ((1+r)^n - 1): the divisor is 0.0 when
\* n = 0, positive when n > 0 and negative when n < 0.  Otherwise it is
\* loan_amount / n.  total_payment is the payment times n; total_interest
\* is total_payment - loan_amount, which has the sign of loan_amount * n
\* with a positive rate and is zero without one.
calculate_mortgage(property_price, down_payment, interest_rate, loan_term) ==
    LET loan_amount == property_price.v - down_payment.v
        rate_positive == interest_rate.v > 0
        num_payments == loan_term.v * 12
        monthly_payment == Sign(loan_amount) * Sign(num_payments)
        total_payment == monthly_payment * Sign(num_payments)
        total_interest == IF rate_positive
                          THEN Sign(loan_amount) * Sign(num_payments)
                          ELSE 0
    IN /\ op' = "calculate_mortgage"
       /\ arg' = <<property_price, down_payment, interest_rate, loan_term>>
       /\ ret' = IF num_payments = 0
                 THEN ZeroDivisionError
                 ELSE [value |->
                         D([loan_amount |-> N(loan_amount),
                            monthly_payment |-> Signed(monthly_payment),
                            total_payment |-> Signed(total_payment),
                            total_interest |-> Signed(total_interest)])]
       /\ UNCHANGED <<properties, clients, disk>>

\* what mortgage_calculator_interactive reads at its prompts: prices and
\* down payments on both sides of each other, a zero and a positive rate,
\* and terms from -1 year up
Prices == {0, 100000, 750000}
DownPayments == {0, 150000, 750000, 800000}
InterestRates == {0, 5}

\* the longest term, in years
MaxTerm == 3

LoanTerms == (-1)..MaxTerm

CalculateMortgage ==
    \E p \in Prices, d \in DownPayments, r \in InterestRates, t \in LoanTerms :
        calculate_mortgage(N(p), N(d), N(r), N(t))

InitMortgage == Construct([properties |-> Missing, clients |-> Missing])

NextMortgage == CalculateMortgage

SpecMortgage == InitMortgage /\ [][NextMortgage]_vars

\* C14: calculate_mortgage fails with an input error, and never with a
\* division by zero, whenever the term is zero or negative or the down
\* payment is above the price, at a zero and at a positive rate alike; what
\* it returns has no negative loan amount.
C14_InvalidInputRejected ==
    op = "calculate_mortgage" =>
        LET property_price == arg[1].v
            down_payment == arg[2].v
            loan_term == arg[4].v
        IN /\ (loan_term <= 0 \/ down_payment > property_price) =>
                 ("raised" \in DOMAIN ret /\ ret.raised # "ZeroDivisionError")
           /\ "value" \in DOMAIN ret => ret.value.v.loan_amount.v >= 0

====
